---------------------------- MODULE Spec2Model ----------------------------
(***************************************************************************)
(* Model of cmd/gosky/cmd.py: a polars script that loads a newline-        *)
(* delimited JSON export of feed items, keeps the items that are not plain *)
(* replies, flattens post.author.displayName and reason.by.displayName     *)
(* into two columns, credits every item to the reposter's display name if  *)
(* it is non-null and to the author's display name otherwise, and prints   *)
(* the number of items per credited name, sorted ascending by that number. *)
(*                                                                         *)
(* The script is three statements: the load (line 5), the chain that       *)
(* builds df1 (lines 7-17) and the print of the aggregation (lines 19-28). *)
(* A polars exception in any call ends the process; the model's pc then    *)
(* is "failed" and nothing has been written to stdout.                     *)
(***************************************************************************)
EXTENDS Naturals, Sequences, FiniteSets

VARIABLES
    file,     \* the input file on disk (never written by the script)
    pc,       \* position of the script
    df,       \* the frame bound to df, then to df1
    tbl,      \* the aggregated, sorted frame handed to print
    stdout    \* the tables printed so far

vars == <<file, pc, df, tbl, stdout>>

---------------------------------------------------------------------------
(* Bounds of the model. *)

\* Largest number of records in a file whose records carry every key.
MaxRows == 3

\* Largest number of records in a file written with some keys left out.
MaxShapeRows == 2

\* Display names that occur in the files.
Authors == {"A", "B"}
Reposters == {"B"}

---------------------------------------------------------------------------
(* JSON values.  A JSON null and a missing key both read as Null; any      *)
(* object reads as Obj, its members being values at longer paths.          *)

Null == "<null>"
Obj == "<obj>"

\* The keys the script reads (lines 8-16), plus post.reason, where the
\* data model of the documentation places the repost reason.
Paths ==
    { "reply", "reason", "reason.by", "reason.by.displayName",
      "post", "post.author", "post.author.displayName",
      "post.reason", "post.reason.by", "post.reason.by.displayName" }

Top == "<top>"

Parent(p) ==
    CASE p = "reason.by" -> "reason"
      [] p = "reason.by.displayName" -> "reason.by"
      [] p = "post.author" -> "post"
      [] p = "post.author.displayName" -> "post.author"
      [] p = "post.reason" -> "post"
      [] p = "post.reason.by" -> "post.reason"
      [] p = "post.reason.by.displayName" -> "post.reason.by"
      [] OTHER -> Top

\* The key itself: the last component of the path.
FieldName(p) ==
    CASE p = "reason.by" -> "by"
      [] p = "reason.by.displayName" -> "displayName"
      [] p = "post.author" -> "author"
      [] p = "post.author.displayName" -> "displayName"
      [] p = "post.reason" -> "reason"
      [] p = "post.reason.by" -> "by"
      [] p = "post.reason.by.displayName" -> "displayName"
      [] OTHER -> p

Children(p) == {q \in Paths : Parent(q) = p}

\* The paths at which the feed export really carries data.
FeedPaths ==
    { "reply", "reason", "reason.by", "reason.by.displayName",
      "post", "post.author", "post.author.displayName" }

---------------------------------------------------------------------------
(* The input.  A feed item is a reply or not, a repost (reason is an       *)
(* object naming the reposting account) or not, and has a post with an     *)
(* author; display names are optional.  A file is a sequence of items      *)
(* written with a set of keys; a writer may leave null members out.        *)

Record ==
    { r \in [ reply : {Null, Obj}, reason : {Null, Obj},
              reposter : Reposters \cup {Null}, author : Authors \cup {Null} ] :
        r.reason = Null => r.reposter = Null }

\* The value the item has at a path, before it is written.
Logical(r, p) ==
    CASE p = "reply" -> r.reply
      [] p = "reason" -> r.reason
      [] p = "reason.by" -> r.reason
      [] p = "reason.by.displayName" -> r.reposter
      [] p = "post" -> Obj
      [] p = "post.author" -> Obj
      [] p = "post.author.displayName" -> r.author
      [] p = "post.reason" -> r.reason
      [] p = "post.reason.by" -> r.reason
      [] p = "post.reason.by.displayName" -> r.reposter

\* The key at path p occurs in the line written for item r.
RECURSIVE Written(_, _, _)
Written(f, r, p) ==
    /\ p \in f.keys
    /\ f.omitNulls => Logical(r, p) # Null
    /\ \/ Parent(p) = Top
       \/ Written(f, r, Parent(p)) /\ Logical(r, Parent(p)) = Obj

\* What a reader finds at path p of the line written for item r.
ValueAt(f, r, p) == IF Written(f, r, p) THEN Logical(r, p) ELSE Null

\* Key sets: all the feed's keys; one of them (and what is below it) left
\* out; each of these with a copy of the reason inside post as well.
RECURSIVE Under(_, _)
Under(q, p) == q = p \/ (Parent(q) # Top /\ Under(Parent(q), p))

Below(p) == {q \in Paths : Under(q, p)}

KeySets ==
    LET base == {FeedPaths} \cup {FeedPaths \ Below(p) : p \in FeedPaths}
    IN  base \cup {K \cup (IF "post" \in K THEN Below("post.reason") ELSE {}) : K \in base}

\* A readable file: lines rs written with keys K.
File(K, o, rs) == [status |-> "ok", keys |-> K, omitNulls |-> o, rows |-> rs]

\* A path that names no file, or a file that is not line-delimited JSON.
Unreadable(s) == [status |-> s, keys |-> FeedPaths, omitNulls |-> FALSE, rows |-> << >>]

---------------------------------------------------------------------------
(* read_ndjson(file, infer_schema_length=None): the schema is inferred     *)
(* from every line.  A key is a column (or a struct field) iff some line   *)
(* carries it; it is a struct iff some line has an object there.           *)

InferRows(f) == 1..Len(f.rows)

InSchema(f, p) == \E i \in InferRows(f) : Written(f, f.rows[i], p)

Dtype(f, p) ==
    IF \E i \in InferRows(f) : ValueAt(f, f.rows[i], p) = Obj THEN "struct"
    ELSE IF \E i \in InferRows(f) : ValueAt(f, f.rows[i], p) # Null THEN "str"
    ELSE "null"

\* A frame: whether the chain of calls is still alive (no exception so
\* far), its columns (name -> path of the data it holds) and its rows
\* (indices of the file's lines).
NoFrame == [ok |-> FALSE, cols |-> << >>, rows |-> << >>]

ReadNdjson(f) ==
    IF f.status # "ok" THEN NoFrame
    ELSE [ ok |-> TRUE,
           cols |-> [n \in {FieldName(p) : p \in {q \in Children(Top) : InSchema(f, q)}} |-> n],
           rows |-> [i \in 1..Len(f.rows) |-> i] ]

\* The value of column c in row i of a frame.
Cell(f, fr, i, c) == ValueAt(f, f.rows[fr.rows[i]], fr.cols[c])

---------------------------------------------------------------------------
(* The calls of the chain that builds df1 (lines 7-17).  Each passes a     *)
(* dead frame on: the exception of an earlier call ends the statement.     *)

\* Keep as it would be with the repost disjunct forgotten.
KeepNonReplies(reply, reason) == reply = Null

\* Line 8: the row filter, reply.is_null() | ~reason.is_null().
Keep(reply, reason) == reply = Null \/ ~(reason = Null)

Filter(f, fr) ==
    IF ~fr.ok THEN NoFrame
    ELSE IF ~({"reply", "reason"} \subseteq DOMAIN fr.cols) THEN NoFrame
    ELSE LET Test(i) == Keep(ValueAt(f, f.rows[i], fr.cols["reply"]),
                             ValueAt(f, f.rows[i], fr.cols["reason"]))
         IN  [fr EXCEPT !.rows = SelectSeq(fr.rows, Test)]

\* Unnest as it would be if a field named like another column replaced that
\* column instead of raising.
UnnestOverwrite(f, fr, c) ==
    IF ~fr.ok THEN NoFrame
    ELSE IF c \notin DOMAIN fr.cols THEN NoFrame
    ELSE IF Dtype(f, fr.cols[c]) # "struct" THEN NoFrame
    ELSE LET fields == {q \in Children(fr.cols[c]) : InSchema(f, q)}
             names == {FieldName(q) : q \in fields}
             rest == DOMAIN fr.cols \ {c}
         IN  [fr EXCEPT !.cols =
                [n \in rest \cup names |->
                   IF n \in names THEN CHOOSE q \in fields : FieldName(q) = n
                   ELSE fr.cols[n]]]

\* DataFrame.unnest(c): column c must exist and be a struct; its fields
\* become columns in its place, and a field named like another column of
\* the frame is a duplicate-column error.
Unnest(f, fr, c) ==
    IF ~fr.ok THEN NoFrame
    ELSE IF c \notin DOMAIN fr.cols THEN NoFrame
    ELSE IF Dtype(f, fr.cols[c]) # "struct" THEN NoFrame
    ELSE LET fields == {q \in Children(fr.cols[c]) : InSchema(f, q)}
             rest == DOMAIN fr.cols \ {c}
         IN  IF \E q \in fields : FieldName(q) \in rest THEN NoFrame
             ELSE [fr EXCEPT !.cols =
                     [n \in rest \cup {FieldName(q) : q \in fields} |->
                        IF n \in rest THEN fr.cols[n]
                        ELSE CHOOSE q \in fields : FieldName(q) = n]]

\* Select as it would be if a name that is no column were skipped.
SelectLenient(fr, m) ==
    IF ~fr.ok THEN NoFrame
    ELSE [fr EXCEPT !.cols =
            [n \in {k \in DOMAIN m : m[k] \in DOMAIN fr.cols} |-> fr.cols[m[n]]]]

\* DataFrame.select of named columns, m : new name -> existing name
\* (pl.col(old).alias(new)); a name that is no column is an error.
Select(fr, m) ==
    IF ~fr.ok THEN NoFrame
    ELSE IF \E n \in DOMAIN m : m[n] \notin DOMAIN fr.cols THEN NoFrame
    ELSE [fr EXCEPT !.cols = [n \in DOMAIN m |-> fr.cols[m[n]]]]

\* Lines 7-17.
BuildDf1(f, fr) ==
    LET s8  == Filter(f, fr)
        s9  == Unnest(f, s8, "post")
        s10 == Select(s9, [author |-> "author", reason |-> "reason"])
        s11 == Unnest(f, s10, "reason")
        s12 == Select(s11, [author |-> "author", by |-> "by"])
        s13 == Unnest(f, s12, "author")
        s14 == Select(s13, [author |-> "displayName", by |-> "by"])
        s15 == Unnest(f, s14, "by")
        s16 == Select(s15, [author |-> "author", reposter |-> "displayName"])
    IN  s16

---------------------------------------------------------------------------
(* The argument of print (lines 20-27).                                    *)

\* The expression with the when/otherwise dropped: the author always.
WhenThenOtherwiseAuthorOnly(reposter, author) == author

\* The expression with the fallback dropped: the reposter always.
WhenThenOtherwiseReposterOnly(reposter, author) == reposter

\* Lines 21-23: when(reposter.is_null()).then(author).otherwise(reposter).
WhenThenOtherwise(reposter, author) ==
    IF reposter = Null THEN author ELSE reposter

\* Lines 20-24: the one selected column.  A when/then/otherwise expression
\* is named after its then branch, here "author".
EffectiveAuthor(f, fr) ==
    IF ~fr.ok \/ ~({"reposter", "author"} \subseteq DOMAIN fr.cols)
    THEN [ok |-> FALSE, name |-> "", vals |-> << >>]
    ELSE [ ok |-> TRUE, name |-> "author",
           vals |-> [i \in 1..Len(fr.rows) |->
                       WhenThenOtherwise(Cell(f, fr, i, "reposter"),
                                         Cell(f, fr, i, "author"))] ]

Range(s) == {s[i] : i \in 1..Len(s)}

Orderings(S) ==
    {s \in [1..Cardinality(S) -> S] : \A i, j \in 1..Cardinality(S) : s[i] = s[j] => i = j}

\* Groups as it would be if null keys were dropped from the grouping.
GroupsDropNull(col) ==
    { [author |-> v, len |-> Cardinality({i \in 1..Len(col.vals) : col.vals[i] = v})] :
        v \in {col.vals[i] : i \in 1..Len(col.vals)} \ {Null} }

\* Lines 25-26: group_by(key).len(): one row per distinct value of the key
\* column, null included, with the number of rows holding it.
Groups(col) ==
    { [author |-> v, len |-> Cardinality({i \in 1..Len(col.vals) : col.vals[i] = v})] :
        v \in Range(col.vals) }

\* group_by does not keep an order: the rows come out in any order.
GroupByLen(col, key) ==
    IF ~col.ok \/ key # col.name THEN {} ELSE Orderings(Groups(col))

\* Sort left out: the rows stay in the order group_by produced.
SortKeepOrder(t) == {t}

\* Line 27: sort("len"), ascending; rows of equal len in any order.
Sort(t) ==
    {s \in Orderings(Range(t)) : \A i \in 1..(Len(s) - 1) : s[i].len <= s[i + 1].len}

---------------------------------------------------------------------------
(* The script.                                                             *)

Init ==
    /\ \/ \E n \in 0..MaxRows : \E rs \in [1..n -> Record] :
             file = File(FeedPaths, FALSE, rs)
       \/ \E n \in 0..MaxShapeRows : \E rs \in [1..n -> Record] :
             \E K \in KeySets, o \in BOOLEAN : file = File(K, o, rs)
       \/ \E s \in {"missing", "malformed"} : file = Unreadable(s)
    /\ pc = "start"
    /\ df = NoFrame
    /\ tbl = << >>
    /\ stdout = << >>

\* Line 5.
Load ==
    /\ pc = "start"
    /\ df' = ReadNdjson(file)
    /\ pc' = IF df'.ok THEN "loaded" ELSE "failed"
    /\ UNCHANGED <<file, tbl, stdout>>

\* Lines 7-17.
Flatten ==
    /\ pc = "loaded"
    /\ df' = BuildDf1(file, df)
    /\ pc' = IF df'.ok THEN "df1" ELSE "failed"
    /\ UNCHANGED <<file, tbl, stdout>>

\* Lines 20-27: the value of print's argument.
Aggregate ==
    /\ pc = "df1"
    /\ LET grouped == GroupByLen(EffectiveAuthor(file, df), "author")
       IN  IF grouped = {}
           THEN pc' = "failed" /\ tbl' = tbl
           ELSE \E g \in grouped : \E s \in Sort(g) :
                    /\ tbl' = s
                    /\ pc' = "aggregated"
    /\ UNCHANGED <<file, df, stdout>>

\* Line 19.
PrintTable ==
    /\ pc = "aggregated"
    /\ stdout' = Append(stdout, tbl)
    /\ pc' = "printed"
    /\ UNCHANGED <<file, df, tbl>>

Next == Load \/ Flatten \/ Aggregate \/ PrintTable

Spec == Init /\ [][Next]_vars

---------------------------------------------------------------------------
(* Vocabulary of the properties, stated on the file and on stdout only.    *)

Lines == 1..Len(file.rows)

ReplyOf(i) == ValueAt(file, file.rows[i], "reply")
ReasonOf(i) == ValueAt(file, file.rows[i], "reason")
ReposterName(i) == ValueAt(file, file.rows[i], "reason.by.displayName")
AuthorName(i) == ValueAt(file, file.rows[i], "post.author.displayName")

\* The filter predicate of the documentation.
Included(i) == ReplyOf(i) = Null \/ ReasonOf(i) # Null

\* The effective author of the documentation: reposter if non-null, else author.
Effective(i) == IF ReposterName(i) # Null THEN ReposterName(i) ELSE AuthorName(i)

Printed == pc = "printed"

\* The printed table (the one print of the script).
Table == stdout[1]

RECURSIVE SumLen(_)
SumLen(t) == IF t = << >> THEN 0 ELSE Head(t).len + SumLen(Tail(t))

\* C1: on every completed run, each printed row (a, n) has n equal to the
\* number of input records that pass the filter and whose effective author
\* (reposter if non-null, else author) is a.
C1_RowCountsMatch ==
    Printed =>
        \A k \in 1..Len(Table) :
            Table[k].len =
                Cardinality({i \in Lines : Included(i) /\ Effective(i) = Table[k].author})

C1_Witness ==
    /\ Printed
    /\ \E k \in 1..Len(Table) : Table[k].len = 2 /\ Table[k].author = "B"
    /\ \E i, j \in Lines : /\ Included(i) /\ ReasonOf(i) # Null /\ Effective(i) = "B"
                           /\ Included(j) /\ ReasonOf(j) = Null /\ Effective(j) = "B"

\* C2: on every completed run, the counts of the printed rows sum to the
\* number of input records with reply null or reason non-null; a record
\* that is both a reply and a repost is counted, a plain reply is not.
C2_CountsSumToIncluded ==
    Printed => SumLen(Table) = Cardinality({i \in Lines : Included(i)})

C2_Witness ==
    /\ Printed
    /\ \E i \in Lines : ReplyOf(i) # Null /\ ReasonOf(i) # Null
    /\ \E i \in Lines : ReplyOf(i) # Null /\ ReasonOf(i) = Null
    /\ SumLen(Table) = 2

\* C3 (as claimed): every included record that is a repost (reason non-null)
\* is counted under the display name of the reposting account, and every
\* other included record under the author's display name.
RepostCredit(i) == IF ReasonOf(i) # Null THEN ReposterName(i) ELSE AuthorName(i)

C3_RepostsCountedUnderReposter ==
    Printed =>
        \A k \in 1..Len(Table) :
            Table[k].len =
                Cardinality({i \in Lines : Included(i) /\ RepostCredit(i) = Table[k].author})

\* C4 (as claimed): a file of one record that is neither a reply nor a repost,
\* with post.author.displayName = "A", runs to completion and prints exactly
\* the row ("A", 1).
SinglePlainPostByA ==
    /\ file.status = "ok" /\ file.keys = FeedPaths
    /\ Len(file.rows) = 1
    /\ file.rows[1] = [reply |-> Null, reason |-> Null, reposter |-> Null, author |-> "A"]

C4_SinglePostCountedUnderAuthor ==
    SinglePlainPostByA =>
        /\ pc # "failed"
        /\ Printed => Table = << [author |-> "A", len |-> 1] >>

\* C5 (as claimed): a file in which every record is a plain reply (reply
\* non-null, reason null) runs to completion and prints a table of zero rows.
AllPlainReplies ==
    /\ file.status = "ok" /\ file.keys = FeedPaths
    /\ Len(file.rows) >= 1
    /\ \A i \in Lines : file.rows[i].reply = Obj /\ file.rows[i].reason = Null

C5_AllRepliesPrintEmptyTable ==
    AllPlainReplies =>
        /\ pc # "failed"
        /\ Printed => Table = << >>

\* C6: the printed rows are in non-decreasing order of count.
C6_SortedByCount ==
    Printed => \A k \in 1..(Len(Table) - 1) : Table[k].len <= Table[k + 1].len

C6_Witness ==
    /\ Printed
    /\ Len(Table) >= 2
    /\ Table[1].len < Table[Len(Table)].len

\* C7 (as claimed): no printed row has a null author key, also when the
\* author's or the reposter's displayName is itself null.
C7_NoNullAuthorKey ==
    Printed => \A k \in 1..Len(Table) : Table[k].author # Null

\* C7 (amended): a printed row has a null author key exactly when some
\* included record has neither a reposter display name nor an author
\* display name; every other included record yields a non-null key.
C7_NullKeyIffBothNamesNull ==
    Printed =>
        ( (\E k \in 1..Len(Table) : Table[k].author = Null)
          <=> (\E i \in Lines : Included(i) /\ ReposterName(i) = Null /\ AuthorName(i) = Null) )

C7_Witness ==
    /\ Printed
    /\ \E k \in 1..Len(Table) : Table[k].author = Null
    /\ \E k \in 1..Len(Table) : Table[k].author # Null

\* C8: if the file is missing or malformed, or one of the fields the script
\* reads is absent from the schema inferred from the whole file, the run
\* never gets past the statement that builds df1 (Load and Flatten have no
\* guard but pc, so it can stop only in the failure state), and nothing is
\* printed.
ExpectedFieldAbsent == \E p \in FeedPaths : \A i \in Lines : ~Written(file, file.rows[i], p)

C8_BadInputPrintsNothing ==
    (file.status # "ok" \/ ExpectedFieldAbsent) =>
        /\ pc \in {"start", "loaded", "failed"}
        /\ stdout = << >>
        /\ tbl = << >>

C8_Witness ==
    /\ pc = "failed"
    /\ file.status = "ok"
    /\ Len(file.rows) = 2
    /\ \E i \in Lines : ReasonOf(i) # Null
    /\ \A i \in Lines : ~Written(file, file.rows[i], "reason.by.displayName")
    /\ \A p \in FeedPaths \ {"reason.by.displayName"} :
          \E i \in Lines : Written(file, file.rows[i], p)

\* C9 (as claimed): the reposter projected for a record is the value at
\* post.reason.by.displayName of that record.
HasDf1 == pc \in {"df1", "aggregated", "printed"}

C10_OneRowPerEffectiveAuthor ==
    Printed =>
        /\ \A k, l \in 1..Len(Table) : Table[k].author = Table[l].author => k = l
        /\ \A k \in 1..Len(Table) : Table[k].len >= 1
        /\ {Table[k].author : k \in 1..Len(Table)} =
               {Effective(i) : i \in {j \in Lines : Included(j)}}

C10_Witness ==
    /\ Printed
    /\ Len(Table) = 3
    /\ Cardinality({i \in Lines : Included(i)}) = 3

==========================================================================
